---- MODULE Spec2Model ----
(***************************************************************************)
(* Model of the anomaly detection engine of                                *)
(* src/src/services/anomaly_detector.py (AdvancedAnomalyDetector), with    *)
(* its result store (database_manager.py), its alert dispatcher            *)
(* (alert_manager.py) and the /api/train thread of src/src/api/app.py.     *)
(*                                                                         *)
(* Numbers: confidences and scores are fixed-point, in thousandths         *)
(* (0.9 is 900).  Fitted scikit-learn models are opaque: an object is     *)
(* identified by where it came from, the heap set `fitted` says whether    *)
(* fit() has run on it, and what predict()/score_samples() return is an    *)
(* input of the scoring step.                                              *)
(***************************************************************************)
EXTENDS Integers, Sequences, FiniteSets, TLC

\* ---------------------------------------------------------------- bounds
\* self.feature_count is 1000 in the source; vectors are scaled down here.
feature_count == 2
\* number of anomaly records the store may hold in a run of the model
MaxRecords == 1
\* number of /api/train requests in a run of the model, per train_async
\* thread the specification has
MaxTrainRuns == 1

\* ------------------------------------------------------------ data model
ISOLATION_FOREST == "isolation_forest"
ONE_CLASS_SVM == "one_class_svm"
STATISTICAL == "statistical"
ENSEMBLE == "ensemble"
\* list(AlgorithmType), in declaration order
AlgorithmType == <<ISOLATION_FOREST, ONE_CLASS_SVM, STATISTICAL, ENSEMBLE>>

LOW == "low"
MEDIUM == "medium"
HIGH == "high"
CRITICAL == "critical"
AlertLevel == {LOW, MEDIUM, HIGH, CRITICAL}

\* Python's None, for an optional string argument
None == "None"
\* float('nan'), produced by a 0/0 of numpy; every comparison with it is false
NaN == -999999

\* --------------------------------------------------- Python dict helpers
\* A dict is the sequence of its <<key, value>> entries in insertion order.
Keys(d) == {d[i][1] : i \in DOMAIN d}
Values(d) == {d[i][2] : i \in DOMAIN d}
Has(d, k) == k \in Keys(d)
Get(d, k) == d[CHOOSE i \in DOMAIN d : d[i][1] = k][2]
Put(d, k, v) ==
    IF Has(d, k)
    THEN [i \in DOMAIN d |-> IF d[i][1] = k THEN <<k, v>> ELSE d[i]]
    ELSE Append(d, <<k, v>>)

RECURSIVE SumSeq(_)
SumSeq(s) == IF s = <<>> THEN 0 ELSE Head(s) + SumSeq(Tail(s))

Abs(x) == IF x < 0 THEN -x ELSE x

\* ------------------------------------------------------- model objects
\* An estimator object: role is "model" or "scaler"; origin says which code
\* created it ("load": unpickled at startup, "boot": _create_default_models,
\* "train": train_models, "train wide": train_models, to be fitted on a
\* matrix of another column count) and run which train_models call did.
Obj(algo, role, origin, run) ==
    [algo |-> algo, role |-> role, origin |-> origin, run |-> run]
NoObj == Obj(None, None, None, 0)

\* The artifact files _load_models and _save_models name.
FileNames == {<<ISOLATION_FOREST, "model">>, <<ONE_CLASS_SVM, "model">>,
              <<ONE_CLASS_SVM, "scaler">>}
Missing == [status |-> "missing", obj |-> NoObj, fitted |-> FALSE]
Corrupt == [status |-> "corrupt", obj |-> NoObj, fitted |-> FALSE]
Pickled(o, f) == [status |-> "ok", obj |-> o, fitted |-> f]
\* What a models/ directory can hold when the process starts.
StartFile(fn) == {Missing, Corrupt, Pickled(Obj(fn[1], fn[2], "load", 0), TRUE)}

VARIABLES
    phase,              \* "uninit" before AdvancedAnomalyDetector(), then "ready"
    models,             \* self.models
    scalers,            \* self.scalers
    fitted,             \* the estimator objects on which fit() has completed
    disk,               \* the files under models/
    is_training,        \* self.is_training
    training_progress,  \* self.training_progress
    db,                 \* the rows of the anomalies table, in id order
    alerts,             \* results handed to _send_email_alert, in order,
                        \* each with the outcome of the dispatch
    now,                \* number of datetime.now() calls so far
    runs,               \* number of train_models threads started so far
    trainers,           \* the train_async threads
    det,                \* the request thread running detect_anomaly (path:
                        \* the branch line 149 took; used: the estimators it
                        \* scored with; db0 and alerts0: the store and the
                        \* alerts when it was called)
    published,          \* history: the model sets at construction, at the
                        \* start of each train_models call, after its last
                        \* target and at its end
    cls,                \* argument and result of the pure-function checks
    email_config,       \* AlertManager.email_config: "set" when ALERT_EMAIL
                        \* and ALERT_RECIPIENTS are in the environment
    model_metrics,      \* the model_metrics table, in id order
    feedback,           \* the feedback table, in id order
    history             \* the last get_anomalies call and what it returned

vars == <<phase, models, scalers, fitted, disk, is_training, training_progress,
          db, alerts, now, runs, trainers, det, published, cls,
          email_config, model_metrics, feedback, history>>

\* What neither the detector nor the trainer writes.
StoreVars == <<email_config, model_metrics, feedback, history>>


\* -------------------------------------------------------- pure functions
\* _determine_alert_level with the HIGH and MEDIUM bands exchanged.
determine_alert_level_dipping(confidence, is_anomaly) ==
    IF ~is_anomaly THEN LOW
    ELSE IF confidence # NaN /\ confidence > 900 THEN CRITICAL
    ELSE IF confidence # NaN /\ confidence > 700 THEN MEDIUM
    ELSE IF confidence # NaN /\ confidence > 500 THEN HIGH
    ELSE LOW

\* _determine_alert_level of advanced_app.py (lines 490-502), which
\* compares with >=; confidence in thousandths
advanced_app_determine_alert_level(confidence, is_anomaly) ==
    IF ~is_anomaly THEN LOW
    ELSE IF confidence # NaN /\ confidence >= 900 THEN CRITICAL
    ELSE IF confidence # NaN /\ confidence >= 700 THEN HIGH
    ELSE IF confidence # NaN /\ confidence >= 500 THEN MEDIUM
    ELSE LOW

\* _determine_alert_level; confidence in thousandths
determine_alert_level(confidence, is_anomaly) ==
    IF ~is_anomaly THEN LOW
    ELSE IF confidence # NaN /\ confidence > 900 THEN CRITICAL
    ELSE IF confidence # NaN /\ confidence > 700 THEN HIGH
    ELSE IF confidence # NaN /\ confidence > 500 THEN MEDIUM
    ELSE LOW

\* _generate_description: the f-string, kept as its three varying parts
\* (".1%" prints the confidence in thousandths).
generate_description(algorithm, confidence, is_anomaly) ==
    IF is_anomaly
    THEN <<algorithm, "detected anomaly with", confidence>>
    ELSE <<algorithm, "classified as normal with", confidence>>

\* The vote with the comparison turned round.
ensemble_vote_inverted(predictions) ==
    2 * SumSeq(predictions) <= Len(predictions)

\* _detect_ensemble, line 231: the vote. predictions holds 1 per member that
\* predicted -1 (anomaly) and 0 per member that did not.
ensemble_vote(predictions) ==
    2 * SumSeq(predictions) >= Len(predictions)

\* _detect_ensemble, lines 234-235: np.mean(...) if ensemble_scores else 0.0.
\* The scores the model draws are multiples of 10, so the mean of one or two
\* of them is exact in thousandths.
ensemble_mean(scores) ==
    IF scores # <<>> THEN SumSeq(scores) \div Len(scores) ELSE 0

\* AnomalyResult(...)
AnomalyResult(timestamp, algorithm, is_anomaly, confidence, anomaly_score, features, alert_level, description) ==
    [timestamp |-> timestamp, algorithm |-> algorithm,
     is_anomaly |-> is_anomaly, confidence |-> confidence,
     anomaly_score |-> anomaly_score, features |-> features,
     alert_level |-> alert_level, description |-> description]
NoResult == AnomalyResult(0, None, FALSE, 0, 0, <<>>, LOW, <<>>)

\* ------------------------------------------------------------- startup
\* _load_models: the files are read in the order isolation_forest model,
\* one_class_svm model, one_class_svm scaler; a file that does not exist is
\* skipped, a file that does not unpickle raises and ends the loading.
load_models(d) ==
    LET f1 == d[<<ISOLATION_FOREST, "model">>]
        f2 == d[<<ONE_CLASS_SVM, "model">>]
        f3 == d[<<ONE_CLASS_SVM, "scaler">>]
        m1 == IF f1.status = "ok" THEN Put(<<>>, ISOLATION_FOREST, f1.obj)
              ELSE <<>>
        r1 == f1.status = "corrupt"
        m2 == IF ~r1 /\ f2.status = "ok" THEN Put(m1, ONE_CLASS_SVM, f2.obj)
              ELSE m1
        r2 == r1 \/ f2.status = "corrupt"
        s3 == IF ~r2 /\ f3.status = "ok" THEN Put(<<>>, ONE_CLASS_SVM, f3.obj)
              ELSE <<>>
        r3 == r2 \/ f3.status = "corrupt"
    IN  [raised |-> r3, models |-> m2, scalers |-> s3,
         fitted |-> {f.obj : f \in {g \in {f1, f2, f3} :
                        /\ g.status = "ok" /\ g.fitted
                        /\ g.obj \in Values(m2) \cup Values(s3)}}]

\* _save_models: every model and every scaler of the dicts is dumped.
save_models(d, m, s, fit) ==
    [fn \in FileNames |->
        IF fn[2] = "model" /\ Has(m, fn[1])
        THEN Pickled(Get(m, fn[1]), Get(m, fn[1]) \in fit)
        ELSE IF fn[2] = "scaler" /\ Has(s, fn[1])
        THEN Pickled(Get(s, fn[1]), Get(s, fn[1]) \in fit)
        ELSE d[fn]]

\* _create_default_models, on top of whatever _load_models had installed
\* before it raised: both models and the scaler are created and fitted on
\* the seeded random data.
create_default_models(m, s) ==
    LET iso == Obj(ISOLATION_FOREST, "model", "boot", 0)
        sc == Obj(ONE_CLASS_SVM, "scaler", "boot", 0)
        svm == Obj(ONE_CLASS_SVM, "model", "boot", 0)
    IN  [models |-> Put(Put(m, ISOLATION_FOREST, iso), ONE_CLASS_SVM, svm),
         scalers |-> Put(s, ONE_CLASS_SVM, sc),
         fitted |-> {iso, sc, svm}]

IdleTrainer ==
    [pc |-> "idle", algorithm |-> None, data |-> "ok", targets |-> <<>>,
     i |-> 0, run |-> 0]
IdleDet ==
    [pc |-> "idle", features |-> <<>>, algorithm |-> None, path |-> None,
     iterating |-> FALSE, len0 |-> 0, it |-> 0, model |-> NoObj,
     used |-> {}, prediction |-> 0,
     predictions |-> <<>>, scores |-> <<>>,
     error |-> None, result |-> NoResult,
     db0 |-> <<>>, alerts0 |-> <<>>, raw_scores |-> <<>>]
NoCls == [confidence |-> 0, is_anomaly |-> FALSE, level |-> None]
\* AlertManager.__init__ (alert_manager.py lines 14-21): the sender and the
\* recipients come from the environment of the process, or are not there.
EmailConfigs == {"unset", "set"}
\* No get_anomalies call yet.
NoQuery == [limit |-> 0, algorithm |-> None, rows |-> <<>>]

\* Before AdvancedAnomalyDetector() runs: an empty object, any models/
\* directory.
Init ==
    /\ phase = "uninit"
    /\ models = <<>>
    /\ scalers = <<>>
    /\ fitted = {}
    /\ disk \in [FileNames -> UNION {StartFile(fn) : fn \in FileNames}]
    /\ \A fn \in FileNames : disk[fn] \in StartFile(fn)
    /\ is_training = FALSE
    /\ training_progress = 0
    /\ db = <<>>
    /\ alerts = <<>>
    /\ now = 0
    /\ runs = 0
    /\ trainers = <<IdleTrainer>>
    /\ det = IdleDet
    /\ published = {}
    /\ cls = NoCls
    /\ email_config \in EmailConfigs
    /\ model_metrics = <<>>
    /\ feedback = <<>>
    /\ history = NoQuery

\* __init__ (lines 28-38) with _initialize_models (40-48): load, and on an
\* exception create the default models and save them.
Construct ==
    /\ phase = "uninit"
    /\ LET l == load_models(disk)
           c == create_default_models(l.models, l.scalers)
       IN  IF l.raised
           THEN /\ models' = c.models
                /\ scalers' = c.scalers
                /\ fitted' = l.fitted \cup c.fitted
                /\ disk' = save_models(disk, c.models, c.scalers,
                                       l.fitted \cup c.fitted)
                /\ published' = {<<c.models, c.scalers>>}
           ELSE /\ models' = l.models
                /\ scalers' = l.scalers
                /\ fitted' = l.fitted
                /\ disk' = disk
                /\ published' = {<<l.models, l.scalers>>}
    /\ phase' = "ready"
    /\ is_training' = FALSE
    /\ training_progress' = 0
    /\ UNCHANGED <<db, alerts, now, runs, trainers, det, cls, StoreVars>>


\* ------------------------------------------------------------ training
\* The request bodies /api/train is driven with: the algorithm field, and a
\* training matrix of feature_count columns that the estimators accept
\* ("ok"), one on which fit() raises ("bad": empty, ragged or non-numeric
\* data), or one of another column count ("wide"), which fit() accepts as
\* well.
TrainAlgorithms == {None, ISOLATION_FOREST, ONE_CLASS_SVM}
TrainingData == {"ok", "bad", "wide"}

\* The estimator a train_models call creates for its matrix.
Estimator(algo, role, t) ==
    Obj(algo, role, IF trainers[t].data = "wide" THEN "train wide" ELSE "train",
        trainers[t].run)

\* train_models, line 111
algorithms_to_train(algorithm) ==
    IF algorithm # None THEN <<algorithm>> ELSE AlgorithmType

\* Where the loop of lines 113-134 goes for target number i (counted from
\* 0): the first statement that touches shared state.
TargetPc(targets, i) ==
    IF i >= Len(targets) THEN "l136"
    ELSE IF targets[i + 1] = ISOLATION_FOREST THEN "l120"
    ELSE IF targets[i + 1] = ONE_CLASS_SVM THEN "l126"
    ELSE "l132"

SetTrainer(t, r) == trainers' = [trainers EXCEPT ![t] = r]
At(t, pc) == t \in DOMAIN trainers /\ trainers[t].pc = pc
Goto(t, pc) == SetTrainer(t, [trainers[t] EXCEPT !.pc = pc])

\* api/app.py train_models (lines 110-139): a request starts a thread that
\* will run detector.train_models(training_data, algorithm).  Threads are
\* interchangeable: the new one takes the first free slot.
TrainRequest ==
    \E t \in DOMAIN trainers :
        /\ phase = "ready"
        /\ At(t, "idle")
        /\ \A u \in DOMAIN trainers : At(u, "idle") => t <= u
        /\ runs < MaxTrainRuns * Len(trainers)
        /\ \E algorithm \in TrainAlgorithms, data \in TrainingData :
              SetTrainer(t, [pc |-> "l107", algorithm |-> algorithm, data |-> data,
                             targets |-> algorithms_to_train(algorithm), i |-> 0,
                             run |-> runs + 1])
        /\ runs' = runs + 1
        /\ UNCHANGED <<phase, models, scalers, fitted, disk, is_training,
                       training_progress, db, alerts, now, det, published, cls, StoreVars>>

\* line 107: self.is_training = True
Train107 ==
    \E t \in DOMAIN trainers :
        /\ At(t, "l107")
        /\ is_training' = TRUE
        /\ published' = published \cup {<<models, scalers>>}
        /\ Goto(t, "l108")
        /\ UNCHANGED <<phase, models, scalers, fitted, disk, training_progress,
                       db, alerts, now, runs, det, cls, StoreVars>>

\* line 108: self.training_progress = 0, then into the loop
Train108 ==
    \E t \in DOMAIN trainers :
        /\ At(t, "l108")
        /\ training_progress' = 0
        /\ Goto(t, TargetPc(trainers[t].targets, 0))
        /\ UNCHANGED <<phase, models, scalers, fitted, disk, is_training,
                       db, alerts, now, runs, det, published, cls, StoreVars>>

\* lines 120-122: a new, unfitted IsolationForest is installed
Train120 ==
    \E t \in DOMAIN trainers :
        /\ At(t, "l120")
        /\ models' = Put(models, ISOLATION_FOREST,
                         Estimator(ISOLATION_FOREST, "model", t))
        /\ Goto(t, "l123")
        /\ UNCHANGED <<phase, scalers, fitted, disk, is_training,
                       training_progress, db, alerts, now, runs, det, published, cls, StoreVars>>

\* A fit()/fit_transform() call on the object the dict holds now: it fits
\* the object, or raises and control goes to the finally clause (line 139).
FitStep(t, pc, d, k, next) ==
    /\ At(t, pc)
    /\ IF trainers[t].data # "bad"
       THEN /\ fitted' = fitted \cup {Get(d, k)}
            /\ Goto(t, next)
       ELSE /\ fitted' = fitted
            /\ Goto(t, "l139")
    /\ UNCHANGED <<phase, models, scalers, disk, is_training,
                   training_progress, db, alerts, now, runs, det, published, cls, StoreVars>>

\* line 123: self.models[algo].fit(training_data)
Train123 == \E t \in DOMAIN trainers : FitStep(t, "l123", models, ISOLATION_FOREST, "l132")

\* line 126: a new, unfitted StandardScaler is installed
Train126 ==
    \E t \in DOMAIN trainers :
        /\ At(t, "l126")
        /\ scalers' = Put(scalers, ONE_CLASS_SVM,
                          Estimator(ONE_CLASS_SVM, "scaler", t))
        /\ Goto(t, "l127")
        /\ UNCHANGED <<phase, models, fitted, disk, is_training,
                       training_progress, db, alerts, now, runs, det, published, cls, StoreVars>>

\* line 127: self.scalers[algo].fit_transform(training_data)
Train127 == \E t \in DOMAIN trainers : FitStep(t, "l127", scalers, ONE_CLASS_SVM, "l128")

\* line 128: a new, unfitted OneClassSVM is installed
Train128 ==
    \E t \in DOMAIN trainers :
        /\ At(t, "l128")
        /\ models' = Put(models, ONE_CLASS_SVM,
                         Estimator(ONE_CLASS_SVM, "model", t))
        /\ Goto(t, "l129")
        /\ UNCHANGED <<phase, scalers, fitted, disk, is_training,
                       training_progress, db, alerts, now, runs, det, published, cls, StoreVars>>

\* line 129: self.models[algo].fit(scaled_data)
Train129 == \E t \in DOMAIN trainers : FitStep(t, "l129", models, ONE_CLASS_SVM, "l132")

\* line 132: self.training_progress = ((i + 1) / len(algorithms_to_train)) * 100
\* (exact for the one or four targets a call has), then the next target
Train132 ==
    \E t \in DOMAIN trainers :
        /\ At(t, "l132")
        /\ training_progress' =
              ((trainers[t].i + 1) * 100) \div Len(trainers[t].targets)
        /\ SetTrainer(t, [trainers[t] EXCEPT
                            !.i = @ + 1,
                            !.pc = TargetPc(trainers[t].targets, trainers[t].i + 1)])
        /\ published' = IF trainers[t].i + 1 >= Len(trainers[t].targets)
                        THEN published \cup {<<models, scalers>>}
                        ELSE published
        /\ UNCHANGED <<phase, models, scalers, fitted, disk, is_training,
                       db, alerts, now, runs, det, cls, StoreVars>>

\* line 136: self._save_models()
Train136 ==
    \E t \in DOMAIN trainers :
        /\ At(t, "l136")
        /\ disk' = save_models(disk, models, scalers, fitted)
        /\ Goto(t, "l139")
        /\ UNCHANGED <<phase, models, scalers, fitted, is_training,
                       training_progress, db, alerts, now, runs, det, published, cls, StoreVars>>

\* line 139 (finally): self.is_training = False
Train139 ==
    \E t \in DOMAIN trainers :
        /\ At(t, "l139")
        /\ is_training' = FALSE
        /\ Goto(t, "l140")
        /\ UNCHANGED <<phase, models, scalers, fitted, disk, training_progress,
                       db, alerts, now, runs, det, published, cls, StoreVars>>

\* line 140 (finally): self.training_progress = 100; the thread ends
Train140 ==
    \E t \in DOMAIN trainers :
        /\ At(t, "l140")
        /\ training_progress' = 100
        /\ published' = published \cup {<<models, scalers>>}
        /\ Goto(t, "idle")
        /\ UNCHANGED <<phase, models, scalers, fitted, disk, is_training,
                       db, alerts, now, runs, det, cls, StoreVars>>


\* ----------------------------------------------------------- detection
\* The request bodies /api/detect is driven with.
Vector(n) == [i \in 1..n |-> 0]
FeatureVectors ==
    {Vector(feature_count - 1), Vector(feature_count), Vector(feature_count + 1)}
AlgorithmArgs == {None, ISOLATION_FOREST, ONE_CLASS_SVM, STATISTICAL, "bogus"}
\* What a fitted estimator may answer: predict() in {-1, 1} and
\* score_samples() in thousandths.
Predictions == {-1, 1}
Scores == {-950, 600}

\* The two ValueErrors of the detector, by their messages (lines 145, 182).
ExpectedFeatures == "ValueError: Expected features"
UnknownAlgorithm == "ValueError: Unknown algorithm"

\* What is left of a detect call when it is over: its arguments, its outcome
\* and the history fields (the store and the alerts at its start, and what
\* score_samples answered for each member); the locals of the scoring are
\* gone.
Returned(d) ==
    [IdleDet EXCEPT !.pc = "done", !.features = d.features,
                    !.algorithm = d.algorithm, !.path = d.path,
                    !.predictions = d.predictions, !.error = d.error,
                    !.result = d.result, !.db0 = d.db0, !.alerts0 = d.alerts0,
                    !.raw_scores = d.raw_scores]

\* The detect call ends by raising.
Raise(e) == det' = Returned([det EXCEPT !.error = e])

\* An estimator's predict/transform/score_samples on an object that was
\* never fitted raises NotFittedError.
Usable(o) == o \in fitted

\* A fitted estimator checks the column count of what it is given against
\* the one it was fitted on and raises ValueError when they differ; the
\* vectors that reach the scoring have feature_count elements.
Accepts(o) == o.origin # "train wide"
FeatureMismatch == "ValueError: X has other features"

DetVars == <<phase, models, scalers, fitted, disk, is_training,
             training_progress, runs, trainers, published, cls,
             email_config, model_metrics, feedback, history>>

\* Lines 161-162/168-169 and 184-201 of _detect_single_algorithm: verdict,
\* confidence, alert level, description and the AnomalyResult.
single_result(algorithm, prediction, score, features, timestamp) ==
    LET is_anomaly == prediction = -1
        confidence == Abs(score)
    IN  AnomalyResult(timestamp, algorithm, is_anomaly, confidence, score,
                      features,
                      determine_alert_level(confidence, is_anomaly),
                      generate_description(algorithm, confidence, is_anomaly))

\* Lines 230-252 of _detect_ensemble.
ensemble_result(predictions, scores, features, timestamp) ==
    LET is_anomaly == ensemble_vote(predictions)
        confidence == ensemble_mean(scores)
        anomaly_score == ensemble_mean(scores)
    IN  AnomalyResult(timestamp, ENSEMBLE, is_anomaly, confidence,
                      anomaly_score, features,
                      determine_alert_level(confidence, is_anomaly),
                      generate_description(ENSEMBLE, confidence, is_anomaly))

\* The largest r in lo..hi with r * r * den <= num (lo is one such).
RECURSIVE FloorRoot(_, _, _, _)
FloorRoot(num, den, lo, hi) ==
    IF lo >= hi THEN lo
    ELSE LET mid == (lo + hi + 1) \div 2
         IN  IF mid * mid * den <= num
             THEN FloorRoot(num, den, mid, hi)
             ELSE FloorRoot(num, den, lo, mid - 1)

\* Lines 173-176 in exact arithmetic, for a vector of integers x of length
\* n: with d[i] = n * x[i] - sum(x), the z-score of x[i] is
\* |d[i]| * sqrt(n) / sqrt(Q), Q the sum of the d[i] squared; max_z_score
\* squared is n * D / Q, D the largest d[i] squared (at most n - 1).
Deviations(features) ==
    [i \in DOMAIN features |-> Len(features) * features[i] - SumSeq(features)]
SquareSum(features) ==
    SumSeq([i \in DOMAIN features |->
               Deviations(features)[i] * Deviations(features)[i]])
MaxSquare(features) ==
    LET d == Deviations(features)
    IN  IF features = <<>> THEN 0
        ELSE LET i == CHOOSE i \in DOMAIN d :
                          \A j \in DOMAIN d : d[j] * d[j] <= d[i] * d[i]
             IN  d[i] * d[i]

\* Lines 171-179: the z-score branch.  std_val is 0 exactly when all
\* elements are equal: every z-score is then the nan of 0/0, np.max is nan,
\* nan > 3 is False and min(nan / 3, 1.0) is nan.  Otherwise the verdict is
\* max_z_score > 3, and confidence and score are kept in thousandths, cut
\* to the hundredth below.
statistical_result(features, timestamp) ==
    LET n == Len(features)
        Q == SquareSum(features)
        D == MaxSquare(features)
        is_anomaly == IF Q = 0 THEN FALSE ELSE n * D > 9 * Q
        score == IF Q = 0 THEN NaN
                 ELSE 10 * FloorRoot(10000 * n * D, Q, 0, 100 * n)
        third == IF Q = 0 THEN NaN
                 ELSE 10 * FloorRoot(10000 * n * D, 9 * Q, 0, 100 * n)
        confidence == IF Q = 0 THEN NaN
                      ELSE IF third < 1000 THEN third ELSE 1000
    IN  AnomalyResult(timestamp, STATISTICAL, is_anomaly, confidence, score,
                      features,
                      determine_alert_level(confidence, is_anomaly),
                      generate_description(STATISTICAL, confidence, is_anomaly))

\* detect_anomaly without the length check of lines 144-145.
detect_anomaly_unchecked ==
    /\ phase = "ready"
    /\ det.pc \in {"idle", "done"}
    /\ Len(db) < MaxRecords
    /\ \E features \in FeatureVectors, algorithm \in AlgorithmArgs :
          LET call == [IdleDet EXCEPT !.features = features,
                                      !.algorithm = algorithm,
                                      !.db0 = db, !.alerts0 = alerts]
          IN  IF algorithm # None /\ Has(models, algorithm)
              THEN det' = [call EXCEPT
                             !.path = "single",
                             !.pc = IF algorithm = ISOLATION_FOREST THEN "s159"
                                    ELSE IF algorithm = ONE_CLASS_SVM THEN "s165"
                                    ELSE IF algorithm = STATISTICAL THEN "s173"
                                    ELSE "s182"]
              ELSE det' = [call EXCEPT !.path = "ensemble", !.pc = "e216"]
    /\ UNCHANGED <<db, alerts, now>>
    /\ UNCHANGED DetVars

\* detect_anomaly, lines 142-152: the length check, then the choice between
\* one algorithm and the ensemble.
detect_anomaly ==
    /\ phase = "ready"
    /\ det.pc \in {"idle", "done"}
    /\ \E features \in FeatureVectors, algorithm \in AlgorithmArgs :
          /\ Len(db) < MaxRecords \/ Len(features) # feature_count
          /\ LET call == [IdleDet EXCEPT !.features = features,
                                         !.algorithm = algorithm,
                                         !.db0 = db, !.alerts0 = alerts]
             IN  IF Len(features) # feature_count
                 THEN det' = Returned([call EXCEPT !.error = ExpectedFeatures])
                 ELSE IF algorithm # None /\ Has(models, algorithm)
                 THEN det' = [call EXCEPT
                                !.path = "single",
                                !.pc = IF algorithm = ISOLATION_FOREST THEN "s159"
                                       ELSE IF algorithm = ONE_CLASS_SVM THEN "s165"
                                       ELSE IF algorithm = STATISTICAL THEN "s173"
                                       ELSE "s182"]
                 ELSE det' = [call EXCEPT !.path = "ensemble", !.pc = "e216"]
    /\ UNCHANGED <<db, alerts, now>>
    /\ UNCHANGED DetVars

\* line 159: prediction = self.models[algorithm].predict(X)[0]
Single159 ==
    /\ det.pc = "s159"
    /\ LET o == Get(models, det.algorithm)
       IN  IF ~Usable(o) THEN Raise("NotFittedError")
           ELSE IF ~Accepts(o) THEN Raise(FeatureMismatch)
           ELSE \E prediction \in Predictions :
                  det' = [det EXCEPT !.pc = "s160", !.prediction = prediction,
                                     !.used = @ \cup {o}]
    /\ UNCHANGED <<db, alerts, now>>
    /\ UNCHANGED DetVars

\* The last scoring statement of a single algorithm (score_samples on the
\* object the dict holds now), then lines 184-201: the result is built.
SingleScore(pc) ==
    /\ det.pc = pc
    /\ LET o == Get(models, det.algorithm)
       IN  IF ~Usable(o)
           THEN /\ Raise("NotFittedError")
                /\ now' = now
           ELSE IF ~Accepts(o)
           THEN /\ Raise(FeatureMismatch)
                /\ now' = now
           ELSE /\ \E score \in Scores :
                     det' = [det EXCEPT
                               !.pc = "save", !.used = @ \cup {o},
                               !.result = single_result(det.algorithm,
                                             det.prediction, score,
                                             det.features, now + 1)]
                /\ now' = now + 1
    /\ UNCHANGED <<db, alerts>>
    /\ UNCHANGED DetVars

\* line 160: score = self.models[algorithm].score_samples(X)[0]
Single160 == SingleScore("s160")

\* line 165: scaled_X = self.scalers[algorithm].transform(X)
Single165 ==
    /\ det.pc = "s165"
    /\ IF ~Has(scalers, det.algorithm) THEN Raise("KeyError")
       ELSE IF ~Usable(Get(scalers, det.algorithm)) THEN Raise("NotFittedError")
       ELSE IF ~Accepts(Get(scalers, det.algorithm)) THEN Raise(FeatureMismatch)
       ELSE det' = [det EXCEPT !.pc = "s166",
                               !.used = @ \cup {Get(scalers, det.algorithm)}]
    /\ UNCHANGED <<db, alerts, now>>
    /\ UNCHANGED DetVars

\* line 166: prediction = self.models[algorithm].predict(scaled_X)[0]
Single166 ==
    /\ det.pc = "s166"
    /\ LET o == Get(models, det.algorithm)
       IN  IF ~Usable(o) THEN Raise("NotFittedError")
           ELSE IF ~Accepts(o) THEN Raise(FeatureMismatch)
           ELSE \E prediction \in Predictions :
                  det' = [det EXCEPT !.pc = "s167", !.prediction = prediction,
                                     !.used = @ \cup {o}]
    /\ UNCHANGED <<db, alerts, now>>
    /\ UNCHANGED DetVars

\* line 167: score = self.models[algorithm].score_samples(scaled_X)[0]
Single167 == SingleScore("s167")

\* lines 171-179: the z-score branch (the vectors drawn by detect_anomaly
\* are constant, so std_val is 0 and confidence and score are nan).
Single173 ==
    /\ det.pc = "s173"
    /\ det' = [det EXCEPT
                 !.pc = "save",
                 !.result = statistical_result(det.features, now + 1)]
    /\ now' = now + 1
    /\ UNCHANGED <<db, alerts>>
    /\ UNCHANGED DetVars

\* lines 181-182: raise ValueError(f"Unknown algorithm: {algorithm}")
Single182 ==
    /\ det.pc = "s182"
    /\ Raise(UnknownAlgorithm)
    /\ UNCHANGED <<db, alerts, now>>
    /\ UNCHANGED DetVars

\* line 216: `for algo_type, model in self.models.items()`, one step of the
\* iterator.  A dict that got a new key since the loop began raises
\* RuntimeError; after the last entry lines 230-252 build the result.
Ensemble216 ==
    /\ det.pc = "e216"
    /\ LET len0 == IF det.iterating THEN det.len0 ELSE Len(models)
       IN  IF Len(models) # len0
           THEN /\ Raise("RuntimeError")
                /\ now' = now
           ELSE IF det.it >= len0
           THEN /\ det' = [det EXCEPT
                             !.pc = "save",
                             !.result = ensemble_result(det.predictions,
                                           det.scores, det.features, now + 1)]
                /\ now' = now + 1
           ELSE /\ det' = [det EXCEPT
                             !.iterating = TRUE, !.len0 = len0,
                             !.it = @ + 1,
                             !.model = models[det.it + 1][2],
                             !.pc = IF models[det.it + 1][1] = ISOLATION_FOREST
                                    THEN "e218"
                                    ELSE IF models[det.it + 1][1] = ONE_CLASS_SVM
                                    THEN "e221"
                                    ELSE "e216"]
                /\ now' = now
    /\ UNCHANGED <<db, alerts>>
    /\ UNCHANGED DetVars

\* A member's predict and score_samples on the object the iterator gave,
\* then lines 227-228: its vote and its absolute score are appended.
MemberScore(pc) ==
    /\ det.pc = pc
    /\ IF ~Usable(det.model) THEN Raise("NotFittedError")
       ELSE IF ~Accepts(det.model) THEN Raise(FeatureMismatch)
       ELSE \E prediction \in Predictions, score \in Scores :
              det' = [det EXCEPT
                        !.pc = "e216", !.used = @ \cup {det.model},
                        !.predictions = Append(@, IF prediction = -1 THEN 1 ELSE 0),
                        !.scores = Append(@, Abs(score)),
                        !.raw_scores = Append(@, score)]
    /\ UNCHANGED <<db, alerts, now>>
    /\ UNCHANGED DetVars

\* lines 218-219
Ensemble218 == MemberScore("e218")

\* line 221: scaled_X = self.scalers[algo_type].transform(X)
Ensemble221 ==
    /\ det.pc = "e221"
    /\ IF ~Has(scalers, ONE_CLASS_SVM) THEN Raise("KeyError")
       ELSE IF ~Usable(Get(scalers, ONE_CLASS_SVM)) THEN Raise("NotFittedError")
       ELSE IF ~Accepts(Get(scalers, ONE_CLASS_SVM)) THEN Raise(FeatureMismatch)
       ELSE det' = [det EXCEPT !.pc = "e222",
                               !.used = @ \cup {Get(scalers, ONE_CLASS_SVM)}]
    /\ UNCHANGED <<db, alerts, now>>
    /\ UNCHANGED DetVars

\* lines 222-223
Ensemble222 == MemberScore("e222")

\* ------------------------------------------------------ the result store
\* datetime.isoformat(): the text of a naive datetime.  Texts of this form
\* compare as the datetimes do.
isoformat(timestamp) == <<"iso", timestamp>>
\* json.dumps of the feature list into the TEXT column, and json.loads of it.
json_dumps(features) == <<"json", features>>
json_loads(text) == text[2]

\* The Python type of result.is_anomaly: `prediction == -1` on a numpy
\* integer (lines 161, 168) and `max_z_score > 3` (line 177) are numpy.bool_;
\* the comparison of two Python numbers in _detect_ensemble (line 231) is a
\* bool.  The results of _detect_ensemble are those with algorithm "ensemble".
is_anomaly_type(result) ==
    IF result.algorithm = ENSEMBLE THEN "bool" ELSE "numpy.bool_"

\* sqlite3 binding a parameter for the BOOLEAN column: a Python bool is an
\* int and is stored as INTEGER 0 or 1; numpy.bool_ is neither int, float
\* nor str but supports the buffer protocol, and is stored as a BLOB of
\* its one byte.
bind_is_anomaly(result) ==
    [type |-> IF is_anomaly_type(result) = "bool" THEN "integer" ELSE "blob",
     value |-> IF result.is_anomaly THEN 1 ELSE 0]

\* The row save_anomaly inserts (database_manager.py lines 74-88); id is
\* the AUTOINCREMENT key, the feedback column keeps its default NULL.
anomalies_row(id, result) ==
    [id |-> id,
     timestamp |-> isoformat(result.timestamp),
     algorithm |-> result.algorithm,
     is_anomaly |-> bind_is_anomaly(result),
     confidence |-> result.confidence,
     anomaly_score |-> result.anomaly_score,
     features |-> json_dumps(result.features),
     alert_level |-> result.alert_level,
     description |-> result.description,
     feedback |-> None]

\* DatabaseManager.save_anomaly (lines 70-91): one INSERT; the new row gets
\* the next id.
insert_anomaly(table, result) ==
    Append(table, anomalies_row(Len(table) + 1, result))

\* lines 204 and 255: self.db_manager.save_anomaly(result)
save_anomaly ==
    /\ det.pc = "save"
    /\ db' = insert_anomaly(db, det.result)
    /\ det' = [det EXCEPT !.pc = "alert"]
    /\ UNCHANGED <<alerts, now>>
    /\ UNCHANGED DetVars

\* AlertManager._send_email_alert (alert_manager.py lines 29-63): without a
\* sender or a first recipient it logs and returns ("skipped"); otherwise the
\* first statement of the try block, msg = MimeMultipart(), names a class the
\* module never imported (it imports MIMEMultipart): the NameError is caught
\* by the except clause of line 62 and logged ("failed").  No SMTP
\* connection is ever opened.
send_email_alert(config) ==
    IF config = "unset" THEN "skipped" ELSE "failed"

\* send_alert notifying for every level.
send_alert_every_level ==
    /\ det.pc = "alert"
    /\ alerts' = Append(alerts, [result |-> det.result,
                                 outcome |-> send_email_alert(email_config)])
    /\ det' = Returned(det)
    /\ UNCHANGED <<db, now>>
    /\ UNCHANGED DetVars

\* send_alert whose dispatch failure is not caught.
send_alert_propagating ==
    /\ det.pc = "alert"
    /\ IF det.result.alert_level \in {HIGH, CRITICAL}
       THEN IF send_email_alert(email_config) = "failed"
            THEN /\ alerts' = alerts
                 /\ Raise("NameError")
            ELSE /\ alerts' = Append(alerts, [result |-> det.result,
                                              outcome |-> "skipped"])
                 /\ det' = Returned(det)
       ELSE /\ alerts' = alerts
            /\ det' = Returned(det)
    /\ UNCHANGED <<db, now>>
    /\ UNCHANGED DetVars

\* lines 207 and 258: self.alert_manager.send_alert(result), then the
\* result is returned.  AlertManager.send_alert (alert_manager.py lines
\* 23-27) hands HIGH and CRITICAL results to _send_email_alert; alerts keeps
\* each result handed over and what became of it.
send_alert ==
    /\ det.pc = "alert"
    /\ alerts' = IF det.result.alert_level \in {HIGH, CRITICAL}
                 THEN Append(alerts, [result |-> det.result,
                                      outcome |-> send_email_alert(email_config)])
                 ELSE alerts
    /\ det' = Returned(det)
    /\ UNCHANGED <<db, now>>
    /\ UNCHANGED DetVars

\* ------------------------------------------------- requests to the store
\* The ModelMetrics a caller hands to save_metrics (rates in thousandths,
\* times in milliseconds).
ModelMetrics(algorithm) ==
    [algorithm |-> algorithm, precision |-> 900, recall |-> 850,
     f1_score |-> 870, accuracy |-> 920, training_time |-> 2000,
     prediction_time |-> 5]
MetricsArgs == {ModelMetrics(ISOLATION_FOREST)}
\* The bodies /api/feedback is driven with: anomaly_id is whatever the
\* client sends, an id that was assigned or one that was not.
AnomalyIds == 1..(MaxRecords + 1)
FeedbackTypes == {"false_positive"}
\* The arguments /api/history is driven with: request.args.get("limit",
\* 100, type=int) accepts any integer.
Limits == {-1, 0, 1, MaxRecords}
QueryAlgorithms == {None, ISOLATION_FOREST, ENSEMBLE}

\* The results save_anomaly is handed when the store is driven on its own:
\* one built by _detect_single_algorithm and one built by _detect_ensemble,
\* with the timestamps of request threads that may reach the store in
\* either order.
Timestamps == 1..(MaxRecords + 1)
SampleResults ==
    {single_result(ISOLATION_FOREST, -1, -950, Vector(feature_count), t) :
        t \in Timestamps}
    \cup {ensemble_result(<<1, 0>>, <<950, 600>>, Vector(feature_count), t) :
        t \in Timestamps}

\* save_anomaly (database_manager.py lines 70-91), called with a result.
save_anomaly_call ==
    /\ phase = "ready"
    /\ Len(db) < MaxRecords
    /\ \E result \in SampleResults : db' = insert_anomaly(db, result)
    /\ UNCHANGED <<phase, models, scalers, fitted, disk, is_training,
                   training_progress, alerts, now, runs, trainers, det,
                   published, cls, email_config, model_metrics, feedback,
                   history>>

\* save_metrics (database_manager.py lines 119-137): one INSERT into
\* model_metrics.
save_metrics ==
    /\ phase = "ready"
    /\ Len(model_metrics) < MaxRecords
    /\ \E metrics \in MetricsArgs :
          model_metrics' = Append(model_metrics,
              [id |-> Len(model_metrics) + 1,
               algorithm |-> metrics.algorithm,
               precision_score |-> metrics.precision,
               recall_score |-> metrics.recall,
               f1_score |-> metrics.f1_score,
               accuracy |-> metrics.accuracy,
               training_time |-> metrics.training_time,
               prediction_time |-> metrics.prediction_time])
    /\ UNCHANGED <<phase, models, scalers, fitted, disk, is_training,
                   training_progress, db, alerts, now, runs, trainers, det,
                   published, cls, email_config, feedback, history>>

\* save_feedback that also writes the feedback column of the anomaly row.
save_feedback_marking_row ==
    /\ phase = "ready"
    /\ Len(feedback) < MaxRecords
    /\ \E anomaly_id \in AnomalyIds, feedback_type \in FeedbackTypes :
          /\ feedback' = Append(feedback,
                [id |-> Len(feedback) + 1, anomaly_id |-> anomaly_id,
                 feedback_type |-> feedback_type, user_comment |-> ""])
          /\ db' = [i \in DOMAIN db |->
                      IF db[i].id = anomaly_id
                      THEN [db[i] EXCEPT !.feedback = feedback_type]
                      ELSE db[i]]
    /\ UNCHANGED <<phase, models, scalers, fitted, disk, is_training,
                   training_progress, alerts, now, runs, trainers, det,
                   published, cls, email_config, model_metrics, history>>

\* /api/feedback (api/app.py lines 297-317) with save_feedback
\* (database_manager.py lines 139-151): one INSERT into feedback; the
\* connection never enables foreign keys, so any anomaly_id is taken.
save_feedback ==
    /\ phase = "ready"
    /\ Len(feedback) < MaxRecords
    /\ \E anomaly_id \in AnomalyIds, feedback_type \in FeedbackTypes :
          feedback' = Append(feedback,
              [id |-> Len(feedback) + 1, anomaly_id |-> anomaly_id,
               feedback_type |-> feedback_type, user_comment |-> ""])
    /\ UNCHANGED <<phase, models, scalers, fitted, disk, is_training,
                   training_progress, db, alerts, now, runs, trainers, det,
                   published, cls, email_config, model_metrics, history>>

\* Python truth of the optional algorithm argument (`if algorithm:`).
Truthy(algorithm) == algorithm \notin {None, ""}

\* ORDER BY timestamp DESC on the TEXT column; among equal timestamps the
\* lower id first.
RECURSIVE order_by_timestamp_desc(_)
order_by_timestamp_desc(rows) ==
    IF rows = <<>> THEN <<>>
    ELSE LET i == CHOOSE i \in DOMAIN rows :
                    \A j \in DOMAIN rows :
                       \/ rows[j].timestamp[2] < rows[i].timestamp[2]
                       \/ (rows[j].timestamp[2] = rows[i].timestamp[2] /\ i <= j)
             rest == [k \in 1..(Len(rows) - 1) |->
                         IF k < i THEN rows[k] ELSE rows[k + 1]]
         IN  <<rows[i]>> \o order_by_timestamp_desc(rest)

\* LIMIT ?: SQLite returns at most that many rows, and puts no upper bound
\* on them when the value is negative.
sql_limit(rows, limit) ==
    IF limit < 0 \/ limit >= Len(rows) THEN rows ELSE SubSeq(rows, 1, limit)

\* The SELECT of get_anomalies (lines 98-108).
select_anomalies(table, limit, algorithm) ==
    LET matching == IF Truthy(algorithm)
                    THEN SelectSeq(table, LAMBDA r : r.algorithm = algorithm)
                    ELSE table
    IN  sql_limit(order_by_timestamp_desc(matching), limit)

\* Lines 111-115: each row becomes a dict, its features column is parsed.
row_dict(row) == [row EXCEPT !.features = json_loads(row.features)]

\* /api/history (api/app.py lines 161-174) with get_anomalies
\* (database_manager.py lines 93-117).
get_anomalies ==
    /\ phase = "ready"
    /\ \E limit \in Limits, algorithm \in QueryAlgorithms :
          LET rows == select_anomalies(db, limit, algorithm)
          IN  history' = [limit |-> limit, algorithm |-> algorithm,
                          rows |-> [k \in DOMAIN rows |-> row_dict(rows[k])]]
    /\ UNCHANGED <<phase, models, scalers, fitted, disk, is_training,
                   training_progress, db, alerts, now, runs, trainers, det,
                   published, cls, email_config, model_metrics, feedback>>

\* --------------------------------------------------------- the system
Train ==
    \/ TrainRequest \/ Train107 \/ Train108 \/ Train120 \/ Train123
    \/ Train126 \/ Train127 \/ Train128 \/ Train129 \/ Train132
    \/ Train136 \/ Train139 \/ Train140

Detect ==
    \/ detect_anomaly \/ Single159 \/ Single160 \/ Single165 \/ Single166
    \/ Single167 \/ Ensemble216 \/ Ensemble218 \/ Ensemble221
    \/ Ensemble222 \/ save_anomaly \/ send_alert

Next ==
    \/ Construct
    \/ Train
    \/ Detect

Spec == Init /\ [][Next]_vars

\* The service with no retrain requested: construction over every start
\* directory, then detect calls one after the other.
NextServe ==
    \/ Construct
    \/ Detect

SpecServe == Init /\ [][NextServe]_vars


\* The store on its own: DatabaseManager's operations, driven as
\* detect_anomaly (lines 204 and 255), /api/feedback, /api/history and a
\* caller of save_metrics drive them.
InitStore ==
    /\ phase = "uninit"
    /\ models = <<>>
    /\ scalers = <<>>
    /\ fitted = {}
    /\ disk = [fn \in FileNames |-> Pickled(Obj(fn[1], fn[2], "load", 0), TRUE)]
    /\ is_training = FALSE
    /\ training_progress = 0
    /\ db = <<>>
    /\ alerts = <<>>
    /\ now = 0
    /\ runs = 0
    /\ trainers = <<IdleTrainer>>
    /\ det = IdleDet
    /\ published = {}
    /\ cls = NoCls
    /\ email_config = "unset"
    /\ model_metrics = <<>>
    /\ feedback = <<>>
    /\ history = NoQuery

NextStore ==
    \/ Construct
    \/ save_anomaly_call
    \/ save_metrics
    \/ save_feedback
    \/ get_anomalies

SpecStore == InitStore /\ [][NextStore]_vars

\* Retraining on its own, with two train_async threads: /api/train starts a
\* thread per request (api/app.py lines 124-128), so a second request may
\* arrive while the first thread is still in train_models.
InitTrain ==
    /\ phase = "uninit"
    /\ models = <<>>
    /\ scalers = <<>>
    /\ fitted = {}
    /\ disk \in [FileNames -> UNION {StartFile(fn) : fn \in FileNames}]
    /\ \A fn \in FileNames : disk[fn] \in StartFile(fn)
    /\ is_training = FALSE
    /\ training_progress = 0
    /\ db = <<>>
    /\ alerts = <<>>
    /\ now = 0
    /\ runs = 0
    /\ trainers = <<IdleTrainer, IdleTrainer>>
    /\ det = IdleDet
    /\ published = {}
    /\ cls = NoCls
    /\ email_config = "unset"
    /\ model_metrics = <<>>
    /\ feedback = <<>>
    /\ history = NoQuery

NextTrain ==
    \/ Construct
    \/ Train

SpecTrain == InitTrain /\ [][NextTrain]_vars

\* ------------------------------------------- the classifier on its own
\* The confidences the classifier is applied to: 0.00, 0.01, ... in
\* hundredths up to MaxConfidence (above 1: |score| of a trained model is
\* not bounded by 1).
MaxConfidence == 120
Confidences == {10 * c : c \in 0..MaxConfidence}

InitClassifier ==
    /\ phase = "uninit"
    /\ models = <<>>
    /\ scalers = <<>>
    /\ fitted = {}
    /\ disk = [fn \in FileNames |-> Missing]
    /\ is_training = FALSE
    /\ training_progress = 0
    /\ db = <<>>
    /\ alerts = <<>>
    /\ now = 0
    /\ runs = 0
    /\ trainers = <<IdleTrainer>>
    /\ det = IdleDet
    /\ published = {}
    /\ email_config = "unset"
    /\ model_metrics = <<>>
    /\ feedback = <<>>
    /\ history = NoQuery
    /\ \E confidence \in Confidences, is_anomaly \in BOOLEAN :
          cls = [confidence |-> confidence, is_anomaly |-> is_anomaly,
                 level |-> None]

\* alert_level = self._determine_alert_level(confidence, is_anomaly)
Classify ==
    /\ cls.level = None
    /\ cls' = [cls EXCEPT !.level = determine_alert_level(cls.confidence,
                                                          cls.is_anomaly)]
    /\ UNCHANGED <<phase, models, scalers, fitted, disk, is_training,
                   training_progress, db, alerts, now, runs, trainers, det,
                   published, StoreVars>>

NextClassifier == Classify

SpecClassifier == InitClassifier /\ [][NextClassifier]_vars

\* ------------------------------------------- the z-score branch alone
\* Every variable but cls as the program starts.
Quiescent ==
    /\ phase = "uninit"
    /\ models = <<>>
    /\ scalers = <<>>
    /\ fitted = {}
    /\ disk = [fn \in FileNames |-> Missing]
    /\ is_training = FALSE
    /\ training_progress = 0
    /\ db = <<>>
    /\ alerts = <<>>
    /\ now = 0
    /\ runs = 0
    /\ trainers = <<IdleTrainer>>
    /\ det = IdleDet
    /\ published = {}
    /\ email_config = "unset"
    /\ model_metrics = <<>>
    /\ feedback = <<>>
    /\ history = NoQuery

\* The vectors the z-score branch is applied to: every vector of 0s and 1s
\* of the configured length and of a length where a z-score can pass 3
\* (max_z_score is at most sqrt(n - 1)).
StatisticalLength == 11
StatisticalVectors ==
    [1..feature_count -> {0, 1}] \cup [1..StatisticalLength -> {0, 1}]

InitStatistical ==
    /\ Quiescent
    /\ \E features \in StatisticalVectors :
          cls = [features |-> features, returned |-> FALSE, result |-> None]

\* _detect_single_algorithm(features, "statistical"), lines 171-201.
Statistical ==
    /\ ~cls.returned
    /\ cls' = [cls EXCEPT !.returned = TRUE,
                          !.result = statistical_result(cls.features, 1)]
    /\ UNCHANGED <<phase, models, scalers, fitted, disk, is_training,
                   training_progress, db, alerts, now, runs, trainers, det,
                   published, StoreVars>>

NextStatistical == Statistical

SpecStatistical == InitStatistical /\ [][NextStatistical]_vars

\* ------------------------------------- the classifier on two confidences
\* The two copies of _determine_alert_level the repository has.
Implementations == {"services", "advanced_app"}

InitPair ==
    /\ Quiescent
    /\ \E impl \in Implementations, a \in Confidences, b \in Confidences :
          cls = [impl |-> impl, a |-> a, b |-> b, returned |-> FALSE,
                 level_a |-> None, level_b |-> None]

\* _determine_alert_level(a, True) and _determine_alert_level(b, True)
ClassifyPair ==
    /\ ~cls.returned
    /\ cls' = [cls EXCEPT
                 !.returned = TRUE,
                 !.level_a = IF cls.impl = "services"
                             THEN determine_alert_level(cls.a, TRUE)
                             ELSE advanced_app_determine_alert_level(cls.a, TRUE),
                 !.level_b = IF cls.impl = "services"
                             THEN determine_alert_level(cls.b, TRUE)
                             ELSE advanced_app_determine_alert_level(cls.b, TRUE)]
    /\ UNCHANGED <<phase, models, scalers, fitted, disk, is_training,
                   training_progress, db, alerts, now, runs, trainers, det,
                   published, StoreVars>>

NextPair == ClassifyPair

SpecPair == InitPair /\ [][NextPair]_vars

\* ------------------------------------------------- the simple detector
\* AnomalyDetector of simple_anomaly_detector.py and the /predict endpoint
\* of simple_api.py.  The elements a feature list may hold, by what float()
\* does with them: a float or an int in float range and a str such as "1.5"
\* convert; a str such as "abc" raises ValueError; None (as a list or a dict
\* would) raises TypeError; an int beyond float range, which json.loads
\* reads from a long run of digits, raises OverflowError.
Elements == {"float", "numeric str", "str", "None", "huge int"}
float_of(f) ==
    IF f \in {"float", "numeric str"} THEN "float"
    ELSE IF f = "str" THEN "ValueError"
    ELSE IF f = "None" THEN "TypeError"
    ELSE "OverflowError"

\* The arguments validate_features and predict are applied to: values that
\* are no list, and the lists of feature_count - 1 to feature_count + 1
\* elements.
NoArg == [type |-> "NoneType", items |-> <<>>]
Arguments ==
    {[type |-> t, items |-> <<>>] : t \in {"str", "dict", "NoneType"}}
    \cup {[type |-> "list", items |-> s] :
            s \in UNION {[1..n -> Elements] :
                           n \in (feature_count - 1)..(feature_count + 1)}}

\* How a call ends: with a value or with an exception.
Returns(value) == [raised |-> None, value |-> value]
Raises(exception) == [raised |-> exception, value |-> FALSE]

\* validate_features (lines 56-69): the comprehension converts the elements
\* in order and stops at the first float() that raises; only ValueError and
\* TypeError are caught.
validate_features(features) ==
    LET failing == {i \in DOMAIN features.items :
                       float_of(features.items[i]) # "float"}
        first == CHOOSE i \in failing : \A j \in failing : i <= j
    IN  IF features.type # "list" THEN Returns(FALSE)
        ELSE IF Len(features.items) # feature_count THEN Returns(FALSE)
        ELSE IF failing = {} THEN Returns(TRUE)
        ELSE IF float_of(features.items[first]) \in {"ValueError", "TypeError"}
             THEN Returns(FALSE)
        ELSE Raises(float_of(features.items[first]))

\* What self.model.predict(X)[0] may do: raise, or answer a number.
ModelAnswers ==
    {[raises |-> TRUE, value |-> 0]}
    \cup {[raises |-> FALSE, value |-> p] : p \in {-120, -50, 0, 51}}
NoPrediction ==
    [prediction |-> 0, is_anomaly |-> FALSE, confidence |-> 0,
     feature_count |-> 0]

\* predict with the verdict taken from `abs(prediction) >= 50.0`.
predict_from_fifty(features, answer) ==
    LET valid == validate_features(features)
    IN  IF valid.raised # None
        THEN [raised |-> valid.raised, consulted |-> FALSE,
              result |-> NoPrediction]
        ELSE IF ~valid.value
        THEN [raised |-> "ValueError", consulted |-> FALSE,
              result |-> NoPrediction]
        ELSE IF answer.raises
        THEN [raised |-> "RuntimeError", consulted |-> TRUE,
              result |-> NoPrediction]
        ELSE [raised |-> None, consulted |-> TRUE,
              result |-> [prediction |-> answer.value,
                          is_anomaly |-> Abs(answer.value) >= 50,
                          confidence |-> IF 10 * Abs(answer.value) < 1000
                                         THEN 10 * Abs(answer.value)
                                         ELSE 1000,
                          feature_count |-> Len(features.items)]]

\* predict (lines 71-110); self.model is set by load_model or
\* create_mock_model before any call.  An exception of validate_features
\* leaves predict as it is; one of the model becomes a RuntimeError.
\* confidence in thousandths.
predict(features, answer) ==
    LET valid == validate_features(features)
    IN  IF valid.raised # None
        THEN [raised |-> valid.raised, consulted |-> FALSE,
              result |-> NoPrediction]
        ELSE IF ~valid.value
        THEN [raised |-> "ValueError", consulted |-> FALSE,
              result |-> NoPrediction]
        ELSE IF answer.raises
        THEN [raised |-> "RuntimeError", consulted |-> TRUE,
              result |-> NoPrediction]
        ELSE [raised |-> None, consulted |-> TRUE,
              result |-> [prediction |-> answer.value,
                          is_anomaly |-> Abs(answer.value) > 50,
                          confidence |-> IF 10 * Abs(answer.value) < 1000
                                         THEN 10 * Abs(answer.value)
                                         ELSE 1000,
                          feature_count |-> Len(features.items)]]

\* What a constructor finds at model_path: no file, a file pickle.load
\* raises on, or a pickled model; and whether model_path can be written.
ModelFiles == {"missing", "corrupt", "pickled model"}
Environments == {[file |-> f, writable |-> w] : f \in ModelFiles, w \in BOOLEAN}

\* create_mock_model (lines 36-54): the forest is fitted and assigned, then
\* written to model_path; open(..., 'wb') raises when the path cannot be
\* written.
create_mock_model(env) ==
    IF env.writable
    THEN [raised |-> None, model |-> "mock model", file |-> "pickled mock"]
    ELSE [raised |-> "OSError", model |-> "mock model", file |-> env.file]

\* load_model that logs a failed load and returns.
load_model_logging_only(env) ==
    IF env.file = "pickled model"
    THEN [raised |-> None, model |-> "loaded model", file |-> env.file]
    ELSE IF env.file = "corrupt"
    THEN [raised |-> None, model |-> None, file |-> env.file]
    ELSE create_mock_model(env)

\* __init__ (lines 16-20) with load_model (lines 22-34): self.model starts
\* None; an existing file is unpickled; a missing file, or any exception in
\* the try (one of create_mock_model included), leads to create_mock_model,
\* whose own exception in the handler leaves the constructor.
load_model(env) ==
    IF env.file = "pickled model"
    THEN [raised |-> None, model |-> "loaded model", file |-> env.file]
    ELSE create_mock_model(env)

\* The requests /predict is driven with: a POST without a body, and JSON
\* bodies that are {}, an object without "features", a number, and an
\* object with "features".
Bodies ==
    {[kind |-> k, features |-> NoArg] :
        k \in {"no body", "empty object", "object without features", "number"}}
    \cup {[kind |-> "object with features", features |-> a] : a \in Arguments}

\* request.get_json() (line 31).  Without a body the request has no JSON
\* content type: Flask before 2.1 returns None, Flask from 2.1 on raises
\* UnsupportedMediaType; the repository pins no version.
get_json(body) ==
    IF body.kind = "no body"
    THEN {Returns(FALSE), Raises("UnsupportedMediaType")}
    ELSE {Returns(TRUE)}

Response(status, body_status) == [status |-> status, body_status |-> body_status]

\* The /predict handler (simple_api.py lines 19-64) on a body, given what
\* get_json and the model do.  `"features" in data` raises TypeError on a
\* number; is_anomaly of a result is the numpy.bool_ of `abs(prediction) >
\* 50.0`, which jsonify cannot serialise (TypeError); every exception but
\* ValueError ends in the 500 of lines 58-63.
predict_response(body, json, answer) ==
    IF json.raised # None THEN Response(500, "error")
    ELSE IF ~json.value \/ body.kind = "empty object"
    THEN Response(400, "error")
    ELSE IF body.kind = "number" THEN Response(500, "error")
    ELSE IF body.kind = "object without features" THEN Response(400, "error")
    ELSE LET call == predict(body.features, answer)
         IN  IF call.raised = "ValueError" THEN Response(400, "error")
             ELSE Response(500, "error")

InitSimple ==
    /\ Quiescent
    /\ \/ \E op \in {"validate_features", "predict"}, features \in Arguments :
             cls = [op |-> op, arg |-> features, returned |-> FALSE,
                    outcome |-> None]
       \/ \E body \in Bodies :
             cls = [op |-> "/predict", arg |-> body, returned |-> FALSE,
                    outcome |-> None]
       \/ \E env \in Environments :
             cls = [op |-> "AnomalyDetector", arg |-> env, returned |-> FALSE,
                    outcome |-> None]

\* detector.validate_features(features)
ValidateFeatures ==
    /\ cls.op = "validate_features" /\ ~cls.returned
    /\ cls' = [cls EXCEPT !.returned = TRUE,
                          !.outcome = validate_features(cls.arg)]
    /\ UNCHANGED <<phase, models, scalers, fitted, disk, is_training,
                   training_progress, db, alerts, now, runs, trainers, det,
                   published, StoreVars>>

\* AnomalyDetector()
LoadModel ==
    /\ cls.op = "AnomalyDetector" /\ ~cls.returned
    /\ cls' = [cls EXCEPT !.returned = TRUE, !.outcome = load_model(cls.arg)]
    /\ UNCHANGED <<phase, models, scalers, fitted, disk, is_training,
                   training_progress, db, alerts, now, runs, trainers, det,
                   published, StoreVars>>

\* detector.predict(features)
Predict ==
    /\ cls.op = "predict" /\ ~cls.returned
    /\ \E answer \in ModelAnswers :
          cls' = [cls EXCEPT !.returned = TRUE,
                             !.outcome = predict(cls.arg, answer)]
    /\ UNCHANGED <<phase, models, scalers, fitted, disk, is_training,
                   training_progress, db, alerts, now, runs, trainers, det,
                   published, StoreVars>>

\* POST /predict
PredictEndpoint ==
    /\ cls.op = "/predict" /\ ~cls.returned
    /\ \E json \in get_json(cls.arg), answer \in ModelAnswers :
          cls' = [cls EXCEPT !.returned = TRUE,
                             !.outcome = predict_response(cls.arg, json, answer)]
    /\ UNCHANGED <<phase, models, scalers, fitted, disk, is_training,
                   training_progress, db, alerts, now, runs, trainers, det,
                   published, StoreVars>>

NextSimple ==
    \/ LoadModel
    \/ ValidateFeatures
    \/ Predict
    \/ PredictEndpoint

SpecSimple == InitSimple /\ [][NextSimple]_vars

\* =============================================================== claims

\* C1: the alert classifier gives LOW when is_anomaly is false, and for an
\* anomaly CRITICAL from 0.9, HIGH from 0.7, MEDIUM from 0.5 (each bound
\* included in the higher band) and LOW below 0.5.
C1_AlertBands ==
    cls.level # None =>
        cls.level = IF ~cls.is_anomaly THEN LOW
                    ELSE IF cls.confidence >= 900 THEN CRITICAL
                    ELSE IF cls.confidence >= 700 THEN HIGH
                    ELSE IF cls.confidence >= 500 THEN MEDIUM
                    ELSE LOW

\* The detect call has a result (built, being stored, or returned).
HasResult == det.pc \in {"save", "alert", "done"} /\ det.error = None
AnomalyVotes == SumSeq(det.predictions)
VotingMembers == Len(det.predictions)

\* C2: the ensemble verdict is true exactly when the members voting anomaly
\* are strictly more than half of the voting members; a tie gives false.
C2_MajorityRule ==
    (HasResult /\ det.path = "ensemble" /\ VotingMembers >= 1) =>
        (det.result.is_anomaly <=> 2 * AnomalyVotes > VotingMembers)

\* A train_models call is between its first and its last statement.
Training(t) == trainers[t].pc \notin {"idle", "l107"}
\* The detect call is in flight while some train_models call is.
DetectDuringRetrain ==
    /\ det.pc \notin {"idle", "done"}
    /\ \E t \in DOMAIN trainers : Training(t)
\* The objects a detect call has scored with all belong to one of the model
\* sets that were complete: before a retrain, or after it.
OneModelSet(used, sets) ==
    \E p \in sets : used \subseteq Values(p[1]) \cup Values(p[2])

\* C3: a detect call running concurrently with a retrain never meets an
\* object that is installed but not fitted, and everything it scores with
\* comes from one complete model set (the one before the retrain or the one
\* after it).
C3_ConsistentModelSet ==
    [][DetectDuringRetrain =>
          /\ det'.error # "NotFittedError"
          /\ OneModelSet(det'.used, published')]_vars

\* The model set holds both models and the scaler, all fitted.
CompleteModelSet ==
    /\ Has(models, ISOLATION_FOREST)
    /\ Has(models, ONE_CLASS_SVM)
    /\ Has(scalers, ONE_CLASS_SVM)
    /\ {Get(models, ISOLATION_FOREST), Get(models, ONE_CLASS_SVM),
        Get(scalers, ONE_CLASS_SVM)} \subseteq fitted
\* The detect call ran on the complete model set construction left, with no
\* retrain requested so far.
OnCompleteModelSet == runs = 0 /\ CompleteModelSet

\* C4: after construction (whatever the models/ directory held: artifacts
\* present, missing or unreadable) the model set holds a fitted
\* isolation_forest model and a fitted one_class_svm model with its fitted
\* scaler, and these are the objects in the artifact files.
C4_BootstrapFallback ==
    (phase = "ready" /\ runs = 0) =>
        /\ CompleteModelSet
        /\ disk[<<ISOLATION_FOREST, "model">>] =
              Pickled(Get(models, ISOLATION_FOREST), TRUE)
        /\ disk[<<ONE_CLASS_SVM, "model">>] =
              Pickled(Get(models, ONE_CLASS_SVM), TRUE)
        /\ disk[<<ONE_CLASS_SVM, "scaler">>] =
              Pickled(Get(scalers, ONE_CLASS_SVM), TRUE)

\* C5: an ensemble detection in which no member scored ends with an error:
\* no AnomalyResult, no new record, no alert.
C5_NoAlgorithmAvailable ==
    (det.path = "ensemble" /\ det.pc \in {"save", "alert", "done"}
        /\ VotingMembers = 0) =>
        /\ det.error # None
        /\ det.result = NoResult
        /\ db = det.db0
        /\ alerts = det.alerts0

\* The errors a member's scoring raises (a missing or unfitted estimator).
MemberErrors == {"KeyError", "NotFittedError"}

\* C6: a member whose scoring raises is left out of the vote and the
\* ensemble answers from the others: an ensemble detection ends with a
\* member's error only when no member scored.
C6_MemberFailureSkipped ==
    (det.path = "ensemble" /\ det.pc = "done" /\ det.error \in MemberErrors) =>
        VotingMembers = 0

\* C7: an ensemble detection with at least one scoring member, all of which
\* vote anomaly, has the verdict true.
C7_Unanimity ==
    (HasResult /\ det.path = "ensemble" /\ VotingMembers >= 1
        /\ \A i \in DOMAIN det.predictions : det.predictions[i] = 1) =>
        det.result.is_anomaly

\* C7 witness: both members scored, both voted anomaly, the result is out.
C7_Witness ==
    /\ det.pc = "done" /\ det.error = None /\ det.path = "ensemble"
    /\ det.predictions = <<1, 1>>
    /\ det.result.is_anomaly

\* C8: detect with an identifier that names no algorithm ends with the
\* unknown-algorithm error, and store and alerts are as they were (stated
\* for calls on a complete model set, where no member can fail).
C8_UnknownAlgorithm ==
    (det.pc = "done" /\ det.algorithm = "bogus"
        /\ Len(det.features) = feature_count /\ OnCompleteModelSet) =>
        /\ det.error = UnknownAlgorithm
        /\ db = det.db0
        /\ alerts = det.alerts0

\* C9: a detect that returns a result for isolation_forest, one_class_svm or
\* statistical returns that algorithm's own result; with no identifier it
\* returns the ensemble's (stated for calls on a complete model set).
C9_RequestedAlgorithm ==
    (det.pc = "done" /\ det.error = None /\ OnCompleteModelSet) =>
        /\ det.algorithm \in {ISOLATION_FOREST, ONE_CLASS_SVM, STATISTICAL} =>
              (det.result.algorithm = det.algorithm /\ det.path = "single")
        /\ det.algorithm = None => det.result.algorithm = ENSEMBLE

\* C10: a detect call on a vector whose length is not feature_count ends at
\* once with the dimension error: nothing was scored, and store, alerts,
\* model set, artifacts and training status are untouched.
C10_RejectionNoSideEffects ==
    [][(det.pc \in {"idle", "done"} /\ det' # det
            /\ Len(det'.features) # feature_count) =>
          /\ det'.pc = "done"
          /\ det'.error = ExpectedFeatures
          /\ det'.used = {} /\ det'.predictions = <<>>
          /\ det'.result = NoResult
          /\ UNCHANGED <<db, alerts, models, scalers, fitted, disk,
                         is_training, training_progress>>]_vars

\* C10 witness: a vector one short was rejected while the store held a
\* record, which is still there.
C10_Witness ==
    /\ det.pc = "done" /\ det.error = ExpectedFeatures
    /\ Len(det.features) = feature_count - 1
    /\ Len(db) >= 1 /\ db = det.db0

\* Thread t is in a train_models call, past line 107 and before the
\* finally clause has cleared the flag.
Flagged(t) == trainers[t].pc \notin {"idle", "l107", "l140"}
\* Thread t is in a train_models call, past the reset of line 108.
Counting(t) == trainers[t].pc \notin {"idle", "l107", "l108"}

\* C11: in a retrain run is_training is true from the start of the run to
\* its end and false after it (one false -> true -> false), the progress is
\* 0 once the run has reset it, never decreases while the run goes on, and
\* is 100 when the run is over.
C11_RetrainProgress ==
    [][\A t \in DOMAIN trainers :
          /\ Flagged(t) => is_training
          /\ (At(t, "l108") /\ Counting(t)') => training_progress' = 0
          /\ (Counting(t) /\ Counting(t)') =>
                training_progress' >= training_progress
          /\ (At(t, "l140") /\ At(t, "idle")') =>
                (training_progress' = 100 /\ ~is_training')]_vars

\* C12: only results whose alert_level is HIGH or CRITICAL are handed to the
\* notification path; a LOW or MEDIUM result (so every result that is not an
\* anomaly) is never notified.
C12_AlertOnlyHighCritical ==
    \A i \in DOMAIN alerts :
        /\ alerts[i].result.alert_level \in {HIGH, CRITICAL}
        /\ alerts[i].result.is_anomaly

\* C12 witness: a MEDIUM anomaly was stored and returned, and nothing was
\* notified.
C12_Witness ==
    /\ det.pc = "done" /\ det.error = None
    /\ det.result.is_anomaly /\ det.result.alert_level = MEDIUM
    /\ db # <<>> /\ db[Len(db)] = anomalies_row(Len(db), det.result)
    /\ alerts = <<>>

\* C13: when send_alert has run on a stored result, whatever became of the
\* dispatch (skipped for want of configuration, or failed), the detect call
\* returns that result without an error and the record is still the last of
\* the store.
C13_DispatchFailureContained ==
    [][(det.pc = "alert" /\ det'.pc # "alert") =>
          /\ det'.pc = "done"
          /\ det'.error = None
          /\ det'.result = det.result
          /\ db' = db
          /\ db'[Len(db')] = anomalies_row(Len(db'), det.result)]_vars

\* C13 witness: a HIGH or CRITICAL result was handed to the dispatcher, the
\* dispatch failed, and the call returned the result, which is in the store.
C13_Witness ==
    /\ det.pc = "done" /\ det.error = None
    /\ alerts # <<>>
    /\ alerts[Len(alerts)] = [result |-> det.result, outcome |-> "failed"]
    /\ db # <<>> /\ db[Len(db)] = anomalies_row(Len(db), det.result)

\* s is an initial segment of t.
IsPrefix(s, t) == Len(s) <= Len(t) /\ SubSeq(t, 1, Len(s)) = s

Eligible(table, algorithm) ==
    {k \in DOMAIN table : algorithm = None \/ table[k].algorithm = algorithm}

\* C15: get_anomalies(limit, algorithm) returns at most limit records,
\* sorted by timestamp in descending order, they are the limit most recent
\* of the eligible ones, and the eligible ones are those of the algorithm
\* when one is given and all records when none is.
C15_GetAnomalies ==
    [][history' # history =>
          LET rows == history'.rows
              eligible == Eligible(db, history'.algorithm)
              returned == {k \in eligible :
                              \E i \in DOMAIN rows : rows[i] = row_dict(db[k])}
          IN  /\ Len(rows) <= history'.limit
              /\ \A i, j \in DOMAIN rows :
                    i < j => rows[i].timestamp[2] >= rows[j].timestamp[2]
              /\ \A i \in DOMAIN rows :
                    \E k \in eligible : rows[i] = row_dict(db[k])
              /\ \/ returned = eligible
                 \/ Cardinality(returned) = history'.limit
              /\ \A k \in returned, m \in eligible \ returned :
                    db[k].timestamp[2] >= db[m].timestamp[2]]_vars

\* What Python's == answers for a value read from the BOOLEAN column and
\* the bool that was written: the int 1 equals True and 0 equals False, a
\* bytes object equals neither.
equals_bool(read, written) ==
    /\ read.type = "integer"
    /\ read.value = (IF written THEN 1 ELSE 0)

\* A row read back reproduces the fields of the result it was written from
\* (the timestamp in its ISO form, the features parsed from their JSON).
Reproduces(read, result) ==
    /\ read.timestamp = isoformat(result.timestamp)
    /\ read.algorithm = result.algorithm
    /\ equals_bool(read.is_anomaly, result.is_anomaly)
    /\ read.confidence = result.confidence
    /\ read.anomaly_score = result.anomaly_score
    /\ read.features = result.features
    /\ read.alert_level = result.alert_level
    /\ read.description = result.description

\* C16: a result written with save_anomaly and read back with get_anomalies
\* reproduces every field of the written result: timestamp, algorithm,
\* is_anomaly, confidence, anomaly_score, the feature list, alert_level and
\* description.
C16_RoundTrip ==
    \A i \in DOMAIN history.rows :
        \A result \in SampleResults :
            history.rows[i] = row_dict(anomalies_row(history.rows[i].id, result))
                => Reproduces(history.rows[i], result)

\* C17: for every valid vector, constant ones included, the statistical
\* variant reports as raw score the maximum absolute z-score (a number, not
\* below 0), is_anomaly exactly when the raw score is above 3, and
\* confidence = min(raw score / 3, 1) (to the hundredth), within [0, 1].
C17_StatisticalResult ==
    cls.returned =>
        LET r == cls.result
        IN  /\ r.anomaly_score # NaN /\ r.anomaly_score >= 0
            /\ r.is_anomaly <=> r.anomaly_score > 3000
            /\ r.confidence # NaN
            /\ r.confidence \in 0..1000
            /\ 3 * r.confidence <= r.anomaly_score
            /\ r.confidence < 1000 => r.anomaly_score < 3 * (r.confidence + 10)

\* The ordering LOW < MEDIUM < HIGH < CRITICAL.
Rank(level) ==
    IF level = LOW THEN 0
    ELSE IF level = MEDIUM THEN 1
    ELSE IF level = HIGH THEN 2
    ELSE 3

\* C18: for is_anomaly = true and two confidences a >= b the level given to
\* a is at least the level given to b, in the ordering LOW < MEDIUM < HIGH <
\* CRITICAL (for either copy of the classifier).
C18_Monotone ==
    (cls.returned /\ cls.a >= cls.b) => Rank(cls.level_a) >= Rank(cls.level_b)

\* C18 witness: two confidences on either side of a band bound of the
\* services copy, classified HIGH and MEDIUM.
C18_Witness ==
    /\ cls.returned /\ cls.impl = "services"
    /\ cls.a > cls.b
    /\ cls.level_a = HIGH /\ cls.level_b = MEDIUM

\* The argument is a list of exactly feature_count elements each of which
\* converts to a number.
Convertible(features) ==
    /\ features.type = "list"
    /\ Len(features.items) = feature_count
    /\ \A i \in DOMAIN features.items : float_of(features.items[i]) = "float"
\* The list holds an element that is no number (and no text of one).
HasNonNumeric(features) ==
    \E i \in DOMAIN features.items : features.items[i] \in {"str", "None"}

\* C19: validate_features returns True exactly when its argument is a list
\* of exactly feature_count elements each of which converts to a number,
\* and returns False, without raising, for an argument that is no list, for
\* a list of another length and for a list holding a non-numeric element.
C19_ValidateFeatures ==
    (cls.returned /\ cls.op = "validate_features") =>
        /\ (cls.outcome.raised = None /\ cls.outcome.value)
              <=> Convertible(cls.arg)
        /\ (\/ cls.arg.type # "list"
            \/ Len(cls.arg.items) # feature_count
            \/ HasNonNumeric(cls.arg))
              => (cls.outcome.raised = None /\ ~cls.outcome.value)

\* validate_features does not accept the argument.
Rejected(features) == validate_features(features) # Returns(TRUE)

\* C20: predict raises ValueError for every input validate_features rejects,
\* before the model is consulted, and /predict answers 400 with status
\* error (never 500) to such features, to a body without a features field
\* and to a request without a JSON body.
C20_RejectedIs400 ==
    /\ (cls.returned /\ cls.op = "predict" /\ Rejected(cls.arg)) =>
          (cls.outcome.raised = "ValueError" /\ ~cls.outcome.consulted)
    /\ (/\ cls.returned /\ cls.op = "/predict"
        /\ \/ cls.arg.kind \in {"no body", "empty object",
                                "object without features"}
           \/ cls.arg.kind = "object with features" /\ Rejected(cls.arg.features))
          => cls.outcome = Response(400, "error")

C22_ModelNeverNone ==
    (cls.returned /\ cls.op = "AnomalyDetector" /\ cls.outcome.raised = None) =>
        /\ cls.outcome.model # None
        /\ cls.arg.file = "pickled model" =>
              (cls.outcome.model = "loaded model" /\ cls.outcome.file = cls.arg.file)
        /\ cls.arg.file \in {"missing", "corrupt"} =>
              (cls.outcome.model = "mock model" /\ cls.outcome.file = "pickled mock")

\* C22 witness: a constructor that found a file it could not load ended
\* with the mock model installed and written.
C22_Witness ==
    /\ cls.returned /\ cls.op = "AnomalyDetector" /\ cls.outcome.raised = None
    /\ cls.arg.file = "corrupt"
    /\ cls.outcome.model = "mock model" /\ cls.outcome.file = "pickled mock"

\* C23: at every moment of a retrain run, and after it, training_progress
\* is (targets completed / targets of the run) * 100; it reads 100 only
\* when every target of the run was retrained, also when a fit raised.
C23_ProgressIsFraction ==
    \A t \in DOMAIN trainers :
        (Counting(t) \/ (At(t, "idle") /\ trainers[t].run > 0)) =>
            /\ training_progress =
                  (trainers[t].i * 100) \div Len(trainers[t].targets)
            /\ training_progress = 100 =>
                  trainers[t].i = Len(trainers[t].targets)

\* C24: at most one retrain is in flight at any time: while a train_models
\* call is running no second one runs, so no two of them write the model
\* set, the progress counter or the artifacts concurrently.
C24_SingleRetrain ==
    Cardinality({t \in DOMAIN trainers : ~At(t, "idle")}) <= 1

\* C25: a train call with a matrix whose column count is not feature_count
\* is refused and leaves the model set as it was: no estimator made for such
\* a matrix is ever in the model set or the scaler set, so every model there
\* accepts vectors of feature_count elements.
C25_WidthGuard ==
    \A k \in {ISOLATION_FOREST, ONE_CLASS_SVM} :
        /\ Has(models, k) => Accepts(Get(models, k))
        /\ Has(scalers, k) => Accepts(Get(scalers, k))

\* C26: a detect call that succeeds has appended exactly one record to the
\* store, equal to the result it returns, and the record is there when the
\* alert dispatcher is invoked and when the call returns.
C26_OneRecordPerDetect ==
    (det.pc = "alert" \/ (det.pc = "done" /\ det.error = None)) =>
        /\ Len(db) = Len(det.db0) + 1
        /\ SubSeq(db, 1, Len(det.db0)) = det.db0
        /\ Reproduces(row_dict(db[Len(db)]), det.result)

\* C27: every feedback record's anomaly_id is the id of an anomaly record
\* in the store; save_feedback with an id that was never assigned creates no
\* feedback record.
C27_FeedbackRefersToAnomaly ==
    \A i \in DOMAIN feedback :
        \E k \in DOMAIN db : db[k].id = feedback[i].anomaly_id

\* C28: the confidence of an ensemble result is the arithmetic mean of the
\* confidences of the members that scored (each |score|), and its
\* anomaly_score is the arithmetic mean of their raw, signed scores.
C28_EnsembleMeans ==
    (HasResult /\ det.result.algorithm = ENSEMBLE /\ det.raw_scores # <<>>) =>
        /\ det.result.confidence =
              ensemble_mean([i \in DOMAIN det.raw_scores |-> Abs(det.raw_scores[i])])
        /\ det.result.anomaly_score = ensemble_mean(det.raw_scores)

\* C29: in every state, after the startup load, after the bootstrap and
\* during and after a retrain, a model set that holds a one_class_svm model
\* holds a scaler for it, and no scoring fails for want of the scaler.
C29_SvmHasScaler ==
    /\ Has(models, ONE_CLASS_SVM) => Has(scalers, ONE_CLASS_SVM)
    /\ det.error # "KeyError"

\* C30: is_training is true in every state in which a train_models call has
\* set it and not yet reached the end of its finally clause, also when two
\* calls overlap; it is false only when no retrain is running.
C30_FlagWhileTraining ==
    (\E t \in DOMAIN trainers : Flagged(t)) => is_training

====
